---- MODULE Spec2Model ----
(***************************************************************************)
(* Model of the video parser SDK (package videosdk) and of the platform   *)
(* adapters of package parsers.                                            *)
(*                                                                         *)
(*   Spec      the SDK (VideoSDK): concurrent callers of RegisterParser,   *)
(*             ParseVideo, GetSupportedPlatforms, SetTimeout, GetTimeout   *)
(*             on one SDK instance guarded by a sync.RWMutex.              *)
(*   SpecNorm  the adapters' parseVideoData functions, applied to upstream *)
(*             payloads drawn from bounded sets.                           *)
(*   SpecCall  one ParseVideo call from validation to the returned         *)
(*             envelope, through the adapter's ParseVideo and its upstream *)
(*             HTTP calls, with the clock and the call's context.          *)
(*                                                                         *)
(* Free text (ids, URLs) is a sequence of characters; platform keys,       *)
(* media kinds and message texts are TLA+ strings.  Chinese texts of the   *)
(* source are written in pinyin (labels, field names) or in English        *)
(* (messages).                                                             *)
(***************************************************************************)
EXTENDS Integers, Sequences, FiniteSets, TLC

\* ------------------------------------------------------------------------
\* Bounds of the model
\* ------------------------------------------------------------------------

\* the longest upstream text and the longest upstream list
MaxLen == 3
MaxArr == 2

\* the latest instant of the clock
MaxClock == 2

\* the longest text of a play count
MaxCount == 4

\* the longest request URL and the latest instant of a call's clock
MaxURL == 3
MaxWall == 3

\* the concurrent callers of the SDK
Procs == {"c1", "c2"}

\* ------------------------------------------------------------------------
\* Types of the SDK (package videosdk)
\* ------------------------------------------------------------------------

PlatformDouyin == "douyin"
PlatformKuaishou == "kuaishou"
PlatformXiaohongshu == "xiaohongshu"
\* the platform key of the README's sample adapter
PlatformNew == "new_platform"

\* the platform keys used in requests; "" is the empty key
RequestPlatforms == {"", PlatformDouyin, PlatformKuaishou, PlatformNew}

\* the nil interface value, and the adapter instances callers register:
\* two Douyin adapters, one Kuaishou adapter, one custom adapter after the
\* README's sample, and a custom adapter that declares the empty key
NilParser == "nil"
ParserInstances == {"douyin#1", "douyin#2", "kuaishou#1", "custom#1", "custom#empty"}

\* the value a racing map read may produce
TornParser == "torn"

GetPlatform(a) ==
    CASE a \in {"douyin#1", "douyin#2"} -> PlatformDouyin
      [] a = "kuaishou#1" -> PlatformKuaishou
      [] a = "xiaohongshu#1" -> PlatformXiaohongshu
      [] a = "custom#1" -> PlatformNew
      [] OTHER -> ""

\* error values: nil, or a message text that may wrap an inner error
NoErr == [isNil |-> TRUE, text |-> <<>>, wraps |-> <<>>]
Errorf(text) == [isNil |-> FALSE, text |-> text, wraps |-> <<>>]
ErrorfWrap(prefix, inner) ==
    [isNil |-> FALSE, text |-> <<prefix>> \o inner.text, wraps |-> inner.text]
\* fmt.Sprintf("<prefix>%v", err)
Sprintf_NoArg(prefix, inner) == <<prefix>>
Sprintf(prefix, inner) == <<prefix>> \o inner.text

\* *ParseRequest: nil, or a request
NilReq == [isNil |-> TRUE, Platform |-> "", VideoID |-> <<>>, URL |-> <<>>]
Request(k, id, url) == [isNil |-> FALSE, Platform |-> k, VideoID |-> id, URL |-> url]
Requests ==
    {NilReq} \cup
    {Request(k, f[1], f[2]) : k \in RequestPlatforms,
                              f \in {<< <<>>, <<>> >>, << <<"7">>, <<>> >>}}

\* *VideoInfo as the SDK sees it: nil, or a result carrying a platform
NilInfo == [isNil |-> TRUE, Platform |-> ""]
Info(k) == [isNil |-> FALSE, Platform |-> k]

\* *ParseResponse
NewResponse == [Success |-> FALSE, Message |-> "", Data |-> NilInfo, Error |-> <<>>]
NoResponse == [Success |-> FALSE, Message |-> "none", Data |-> NilInfo, Error |-> <<>>]

DefaultTimeout == 30
Timeouts == {DefaultTimeout, 60}

None == "none"

VARIABLES
    parsers,      \* VideoSDK.parsers: platform key -> adapter, NilParser when unbound
    timeout,      \* VideoSDK.timeout
    mu,           \* VideoSDK.mu: the writer holding it, the readers holding it
    mapWriters,   \* callers in the middle of a write of the parsers map
    crashed,      \* the process died of an unrecovered panic
    pc,           \* each caller's position
    op,           \* each caller's current operation
    arg,          \* each caller's RegisterParser argument
    req,          \* each caller's ParseVideo request
    tmo,          \* each caller's SetTimeout argument / ParseVideo deadline
    found,        \* each caller's (parser, exists) of the map lookup
    response,     \* each caller's returned envelope
    err,          \* each caller's returned error
    platforms,    \* each caller's GetSupportedPlatforms result
    trace,        \* history: the events of each caller's current call
    lastReg       \* history: per key, the adapter of the last RegisterParser that returned nil

sdkVars == <<parsers, timeout, mu, mapWriters, crashed, pc, op, arg, req, tmo,
             found, response, err, platforms, trace, lastReg>>

VARIABLES
    adapter,      \* the adapter whose parseVideoData is applied
    body,         \* the upstream payload: field name -> JSON value
    clock,        \* time.Now()
    videoInfo,    \* the (*VideoInfo, error) parseVideoData returned
    npc           \* "off", "start" before and "done" after parseVideoData

normVars == <<adapter, body, clock, videoInfo, npc>>

VARIABLES
    callParser,   \* the adapter the call goes to
    callReq,      \* the request of the call
    callTimeout,  \* s.timeout, in units of ten seconds
    wall,         \* time.Now(), in units of ten seconds since the call began
    ctx,          \* the context of the call: its deadline, whether it is done and since when
    inflight,     \* the upstream HTTP call in flight, None when there is none
    calls,        \* history: the upstream calls issued, in order
    videoID,      \* the adapter's videoID / target URL
    fullURL, \* the (fullURL, err) of DouyinParser.resolveShortURL
    callOut,      \* the (result, error) of the adapter's ParseVideo
    returnedAt,   \* history: the instant the adapter's ParseVideo returned
    callResp,     \* the envelope and the error the SDK returned
    cpc           \* the position of the call

callVars == <<callParser, callReq, callTimeout, wall, ctx, inflight, calls, videoID,
              fullURL, callOut, returnedAt, callResp, cpc>>

vars == <<sdkVars, normVars, callVars>>

Keys == RequestPlatforms \ {""}

\* ------------------------------------------------------------------------
\* sync.RWMutex
\* ------------------------------------------------------------------------

\* Lock blocks while a writer or a reader holds the mutex, RLock while a
\* writer holds it
LockEnabled == mu.w = None /\ mu.r = {}
RLockEnabled_IgnoreWriter == TRUE
RLockEnabled == mu.w = None

\* ------------------------------------------------------------------------
\* NewSDK
\* ------------------------------------------------------------------------

NewSDK ==
    /\ parsers = [k \in Keys |-> NilParser]
    /\ timeout = DefaultTimeout
    /\ mu = [w |-> None, r |-> {}]
    /\ mapWriters = {}
    /\ crashed = FALSE
    /\ pc = [p \in Procs |-> "idle"]
    /\ op = [p \in Procs |-> None]
    /\ arg = [p \in Procs |-> NilParser]
    /\ req = [p \in Procs |-> NilReq]
    /\ tmo = [p \in Procs |-> 0]
    /\ found = [p \in Procs |-> [parser |-> NilParser, exists |-> FALSE]]
    /\ response = [p \in Procs |-> NoResponse]
    /\ err = [p \in Procs |-> NoErr]
    /\ platforms = [p \in Procs |-> {}]
    /\ trace = [p \in Procs |-> <<>>]
    /\ lastReg = [k \in Keys |-> NilParser]

\* a caller that is not inside a call may start one
Ready(p) == ~crashed /\ pc[p] \in {"idle", "done"}
At(p, l) == ~crashed /\ pc[p] = l

\* the locals of a call that is starting
Begin(p, o, a, r, t) ==
    /\ op' = [op EXCEPT ![p] = o]
    /\ arg' = [arg EXCEPT ![p] = a]
    /\ req' = [req EXCEPT ![p] = r]
    /\ tmo' = [tmo EXCEPT ![p] = t]
    /\ trace' = [trace EXCEPT ![p] = <<>>]
    /\ found' = [found EXCEPT ![p] = [parser |-> NilParser, exists |-> FALSE]]
    /\ platforms' = [platforms EXCEPT ![p] = {}]

\* an event of a call: what was done, on which adapter, whether the mutex was
\* held in the matching mode, for a lookup the binding before and after the
\* writes in progress, for a validation the error it returned
Event(e, a, l, o, n) ==
    [ev |-> e, parser |-> a, locked |-> l, old |-> o, new |-> n, err |-> NoErr]
Validated(a, e) ==
    [ev |-> "validate", parser |-> a, locked |-> FALSE, old |-> NilParser,
     new |-> NilParser, err |-> e]
Log(p, e) == trace' = [trace EXCEPT ![p] = Append(@, e)]

\* a step of a caller of the SDK
Goto(p, l) == pc' = [pc EXCEPT ![p] = l] /\ UNCHANGED <<normVars, callVars>>

\* ------------------------------------------------------------------------
\* VideoSDK.RegisterParser
\* ------------------------------------------------------------------------

\* the checks before the lock: the error returned, NoErr when accepted
RegisterParserCheck_NoEmptyCheck(a) ==
    IF a = NilParser THEN Errorf(<<"parser cannot be nil">>) ELSE NoErr
RegisterParserCheck(a) ==
    IF a = NilParser THEN Errorf(<<"parser cannot be nil">>)
    ELSE IF GetPlatform(a) = "" THEN Errorf(<<"parser platform cannot be empty">>)
    ELSE NoErr

\* s.parsers[platform] = parser
MapStore_KeepFirst(m, k, a) == IF m[k] = NilParser THEN [m EXCEPT ![k] = a] ELSE m
MapStore(m, k, a) == [m EXCEPT ![k] = a]

\* s.parsers[key]: the zero value for a key that is not in the map
MapGet(m, k) == IF k \in DOMAIN m THEN m[k] ELSE NilParser

RegisterParser_Call(p, a) ==
    /\ Ready(p)
    /\ Begin(p, "RegisterParser", a, NilReq, 0)
    /\ response' = [response EXCEPT ![p] = NoResponse]
    /\ err' = [err EXCEPT ![p] = RegisterParserCheck(a)]
    /\ Goto(p, IF RegisterParserCheck(a).isNil THEN "reg_lock" ELSE "done")
    /\ UNCHANGED <<parsers, timeout, mu, mapWriters, crashed, lastReg>>

RegisterParser_Lock(p) ==
    /\ At(p, "reg_lock")
    /\ LockEnabled
    /\ mu' = [mu EXCEPT !.w = p]
    /\ Goto(p, "reg_write")
    /\ UNCHANGED <<parsers, timeout, mapWriters, crashed, op, arg, req, tmo,
                   found, response, err, platforms, trace, lastReg>>

\* the map assignment is not atomic: it begins ...
RegisterParser_WriteBegin(p) ==
    /\ At(p, "reg_write")
    /\ mapWriters' = mapWriters \cup {p}
    /\ Log(p, Event("store", arg[p], mu.w = p /\ mu.r = {}, NilParser, NilParser))
    /\ Goto(p, "reg_writing")
    /\ UNCHANGED <<parsers, timeout, mu, crashed, op, arg, req, tmo,
                   found, response, err, platforms, lastReg>>

\* ... and ends
RegisterParser_WriteEnd(p) ==
    /\ At(p, "reg_writing")
    /\ parsers' = MapStore(parsers, GetPlatform(arg[p]), arg[p])
    /\ mapWriters' = mapWriters \ {p}
    /\ Goto(p, "reg_unlock")
    /\ UNCHANGED <<timeout, mu, crashed, op, arg, req, tmo,
                   found, response, err, platforms, trace, lastReg>>

\* the deferred Unlock runs and the call returns nil
RegisterParser_Unlock(p) ==
    /\ At(p, "reg_unlock")
    /\ mu' = [mu EXCEPT !.w = None]
    /\ lastReg' = [lastReg EXCEPT ![GetPlatform(arg[p])] = arg[p]]
    /\ Goto(p, "done")
    /\ UNCHANGED <<parsers, timeout, mapWriters, crashed, op, arg, req, tmo,
                   found, response, err, platforms, trace>>

\* ------------------------------------------------------------------------
\* The adapters as the SDK calls them
\* ------------------------------------------------------------------------

\* DouyinParser.ValidateRequest, KuaishouParser.ValidateRequest: the same
\* two checks against the adapter's own platform key
AdapterValidateRequest_NoPlatformCheck(own, r) ==
    IF r.VideoID = <<>> /\ r.URL = <<>>
    THEN Errorf(<<"video_id or url is required">>)
    ELSE NoErr
AdapterValidateRequest(own, r) ==
    IF r.VideoID = <<>> /\ r.URL = <<>>
    THEN Errorf(<<"video_id or url is required">>)
    ELSE IF r.Platform # own
    THEN Errorf(<<"platform mismatch, expected: ", own, ", actual: ", r.Platform>>)
    ELSE NoErr

\* Parser.ValidateRequest: the errors the adapter may return.  A custom
\* adapter is any implementation of the interface.
ValidateRequest(a, r) ==
    CASE GetPlatform(a) = PlatformDouyin -> {AdapterValidateRequest(PlatformDouyin, r)}
      [] GetPlatform(a) = PlatformKuaishou -> {AdapterValidateRequest(PlatformKuaishou, r)}
      [] GetPlatform(a) = PlatformXiaohongshu ->
            {AdapterValidateRequest(PlatformXiaohongshu, r)}
      [] OTHER -> {NoErr, Errorf(<<"custom validation error">>)}

UpstreamErr == Errorf(<<"upstream request failed">>)

\* Parser.ParseVideo: the (result, error) pairs the adapter may return.
\* DouyinParser leaves Platform unset, KuaishouParser validates again and
\* sets its own key, a custom adapter may return anything, (nil, nil) of the
\* README's sample included.
Outcome(i, e) == [info |-> i, err |-> e]
AdapterParseVideo(a, r) ==
    CASE GetPlatform(a) = PlatformDouyin ->
            {Outcome(Info(""), NoErr), Outcome(NilInfo, UpstreamErr)}
      [] GetPlatform(a) = PlatformKuaishou ->
            IF AdapterValidateRequest(PlatformKuaishou, r).isNil
            THEN {Outcome(Info(PlatformKuaishou), NoErr), Outcome(NilInfo, UpstreamErr)}
            ELSE {Outcome(NilInfo, AdapterValidateRequest(PlatformKuaishou, r))}
      [] OTHER ->
            {Outcome(NilInfo, NoErr), Outcome(NilInfo, UpstreamErr)}
            \cup {Outcome(Info(k), NoErr) : k \in RequestPlatforms}

\* ------------------------------------------------------------------------
\* VideoSDK.ParseVideo
\* ------------------------------------------------------------------------

\* the parameter checks before the lookup: the message of the failure, <<>>
\* when the request passes
ParseVideoCheck_NoPlatformCheck(r) ==
    IF r.isNil THEN <<"request cannot be nil">> ELSE <<>>
ParseVideoCheck(r) ==
    IF r.isNil THEN <<"request cannot be nil">>
    ELSE IF r.Platform = "" THEN <<"platform is required">>
    ELSE <<>>

\* a failure envelope
Failure_NoError(resp, text) == [resp EXCEPT !.Success = FALSE]
Failure(resp, text) == [resp EXCEPT !.Success = FALSE, !.Error = text]

\* parser, exists := s.parsers[key], read while the callers of mapWriters
\* are writing the map: without a write in progress the binding, with one
\* the old binding, the binding being written, or anything else
MapLoad(m, k) ==
    IF mapWriters = {} THEN {MapGet(m, k)}
    ELSE {MapGet(m, k), TornParser}
         \cup {arg[w] : w \in {x \in mapWriters : GetPlatform(arg[x]) = k}}

\* the comma-ok result of the lookup
Lookup_AlwaysExists(a) == [parser |-> a, exists |-> TRUE]
Lookup(a) == [parser |-> a, exists |-> a # NilParser]

\* the binding of k once the writes in progress are done
MapNew(m, k) ==
    IF \E w \in mapWriters : GetPlatform(arg[w]) = k
    THEN {arg[w] : w \in {x \in mapWriters : GetPlatform(arg[x]) = k}}
    ELSE {MapGet(m, k)}

\* ctx, cancel := context.WithTimeout(ctx, s.timeout): the field is read
\* without the mutex; a read that races with SetTimeout's write may see the
\* old or the new value
TimeoutLoad ==
    {timeout} \cup {tmo[w] : w \in {x \in Procs : pc[x] = "st_write"}}

\* videoInfo.Platform = req.Platform
StampPlatform_Keep(info, r) == info
StampPlatform(info, r) == [info EXCEPT !.Platform = r.Platform]

\* the success envelope
Success(resp, info) ==
    [resp EXCEPT !.Success = TRUE, !.Message = "parse succeeded", !.Data = info]

ParseVideo_Call(p, r) ==
    /\ Ready(p)
    /\ Begin(p, "ParseVideo", NilParser, r, 0)
    /\ IF ParseVideoCheck(r) # <<>>
       THEN /\ response' = [response EXCEPT ![p] = Failure(NewResponse, ParseVideoCheck(r))]
            /\ err' = [err EXCEPT ![p] = Errorf(ParseVideoCheck(r))]
            /\ Goto(p, "done")
       ELSE /\ response' = [response EXCEPT ![p] = NewResponse]
            /\ err' = [err EXCEPT ![p] = NoErr]
            /\ Goto(p, "pv_rlock")
    /\ UNCHANGED <<parsers, timeout, mu, mapWriters, crashed, lastReg>>

ParseVideo_RLock(p) ==
    /\ At(p, "pv_rlock")
    /\ RLockEnabled
    /\ mu' = [mu EXCEPT !.r = @ \cup {p}]
    /\ Goto(p, "pv_lookup")
    /\ UNCHANGED <<parsers, timeout, mapWriters, crashed, op, arg, req, tmo,
                   found, response, err, platforms, trace, lastReg>>

ParseVideo_Lookup(p) ==
    /\ At(p, "pv_lookup")
    /\ \E a \in MapLoad(parsers, req[p].Platform), n \in MapNew(parsers, req[p].Platform) :
          /\ found' = [found EXCEPT ![p] = Lookup(a)]
          /\ Log(p, Event("lookup", a, p \in mu.r /\ mu.w = None,
                          MapGet(parsers, req[p].Platform), n))
    /\ Goto(p, "pv_runlock")
    /\ UNCHANGED <<parsers, timeout, mu, mapWriters, crashed, op, arg, req, tmo,
                   response, err, platforms, lastReg>>

\* the lookup whose read lock is kept until the call returns
ParseVideo_RUnlock_Keep(p) ==
    /\ At(p, "pv_runlock")
    /\ IF ~found[p].exists
       THEN /\ response' = [response EXCEPT ![p] =
                  Failure(@, <<"platform ", req[p].Platform, " is not supported">>)]
            /\ err' = [err EXCEPT ![p] =
                  Errorf(<<"platform ", req[p].Platform, " is not supported">>)]
            /\ Goto(p, "done")
       ELSE /\ UNCHANGED <<response, err>>
            /\ Goto(p, "pv_validate")
    /\ UNCHANGED <<parsers, timeout, mu, mapWriters, crashed, op, arg, req, tmo,
                   found, platforms, trace, lastReg>>

ParseVideo_RUnlock(p) ==
    /\ At(p, "pv_runlock")
    /\ mu' = [mu EXCEPT !.r = @ \ {p}]
    /\ IF ~found[p].exists
       THEN /\ response' = [response EXCEPT ![p] =
                  Failure(@, <<"platform ", req[p].Platform, " is not supported">>)]
            /\ err' = [err EXCEPT ![p] =
                  Errorf(<<"platform ", req[p].Platform, " is not supported">>)]
            /\ Goto(p, "done")
       ELSE /\ UNCHANGED <<response, err>>
            /\ Goto(p, "pv_validate")
    /\ UNCHANGED <<parsers, timeout, mapWriters, crashed, op, arg, req, tmo,
                   found, platforms, trace, lastReg>>

ParseVideo_Validate(p) ==
    /\ At(p, "pv_validate")
    /\ \E e \in ValidateRequest(found[p].parser, req[p]) :
          /\ Log(p, Validated(found[p].parser, e))
          /\ IF ~e.isNil
             THEN /\ response' = [response EXCEPT ![p] =
                        Failure(@, Sprintf("request validation failed: ", e))]
                  /\ err' = [err EXCEPT ![p] = ErrorfWrap("request validation failed: ", e)]
                  /\ Goto(p, "done")
             ELSE /\ UNCHANGED <<response, err>>
                  /\ Goto(p, "pv_invoke")
    /\ UNCHANGED <<parsers, timeout, mu, mapWriters, crashed, op, arg, req, tmo,
                   found, platforms, lastReg>>

\* the deadline is derived and the adapter's ParseVideo is entered
ParseVideo_Invoke(p) ==
    /\ At(p, "pv_invoke")
    /\ \E t \in TimeoutLoad : tmo' = [tmo EXCEPT ![p] = t]
    /\ Log(p, Event("parse", found[p].parser, FALSE, NilParser, NilParser))
    /\ Goto(p, "pv_adapter")
    /\ UNCHANGED <<parsers, timeout, mu, mapWriters, crashed, op, arg, req,
                   found, response, err, platforms, lastReg>>

\* the adapter's ParseVideo returns and the envelope is built; a nil result
\* with a nil error is dereferenced, which panics; the deferred cancel
\* releases the deadline
ParseVideo_Return(p) ==
    /\ At(p, "pv_adapter")
    /\ \E out \in AdapterParseVideo(found[p].parser, req[p]) :
          IF ~out.err.isNil
          THEN /\ response' = [response EXCEPT ![p] =
                     Failure(@, Sprintf("failed to parse video: ", out.err))]
               /\ err' = [err EXCEPT ![p] = ErrorfWrap("failed to parse video: ", out.err)]
               /\ Goto(p, "done")
               /\ UNCHANGED crashed
          ELSE IF out.info.isNil
          THEN /\ crashed' = TRUE
               /\ response' = [response EXCEPT ![p] = NoResponse]
               /\ Goto(p, "panic")
               /\ UNCHANGED err
          ELSE /\ response' = [response EXCEPT ![p] =
                     Success(@, StampPlatform(out.info, req[p]))]
               /\ Goto(p, "done")
               /\ UNCHANGED <<err, crashed>>
    /\ tmo' = [tmo EXCEPT ![p] = 0]
    /\ UNCHANGED <<parsers, timeout, mu, mapWriters, op, arg, req,
                   found, platforms, trace, lastReg>>

\* ------------------------------------------------------------------------
\* VideoSDK.GetSupportedPlatforms
\* ------------------------------------------------------------------------

\* for platform := range s.parsers: the keys read, while the callers of
\* mapWriters are writing the map
MapKeys(m) ==
    IF mapWriters = {} THEN {{k \in Keys : m[k] # NilParser}}
    ELSE {{k \in Keys : m[k] # NilParser}, {TornParser}}

GetSupportedPlatforms_RLock(p) ==
    /\ Ready(p)
    /\ RLockEnabled
    /\ Begin(p, "GetSupportedPlatforms", NilParser, NilReq, 0)
    /\ response' = [response EXCEPT ![p] = NoResponse]
    /\ err' = [err EXCEPT ![p] = NoErr]
    /\ mu' = [mu EXCEPT !.r = @ \cup {p}]
    /\ Goto(p, "gsp_read")
    /\ UNCHANGED <<parsers, timeout, mapWriters, crashed, lastReg>>

GetSupportedPlatforms_Read(p) ==
    /\ At(p, "gsp_read")
    /\ \E ks \in MapKeys(parsers) : platforms' = [platforms EXCEPT ![p] = ks]
    /\ Log(p, Event("keys", NilParser, p \in mu.r /\ mu.w = None, NilParser, NilParser))
    /\ Goto(p, "gsp_runlock")
    /\ UNCHANGED <<parsers, timeout, mu, mapWriters, crashed, op, arg, req, tmo,
                   found, response, err, lastReg>>

GetSupportedPlatforms_RUnlock(p) ==
    /\ At(p, "gsp_runlock")
    /\ mu' = [mu EXCEPT !.r = @ \ {p}]
    /\ Goto(p, "done")
    /\ UNCHANGED <<parsers, timeout, mapWriters, crashed, op, arg, req, tmo,
                   found, response, err, platforms, trace, lastReg>>

\* ------------------------------------------------------------------------
\* VideoSDK.SetTimeout, VideoSDK.GetTimeout
\* ------------------------------------------------------------------------

SetTimeout_Lock(p, t) ==
    /\ Ready(p)
    /\ LockEnabled
    /\ Begin(p, "SetTimeout", NilParser, NilReq, t)
    /\ response' = [response EXCEPT ![p] = NoResponse]
    /\ err' = [err EXCEPT ![p] = NoErr]
    /\ mu' = [mu EXCEPT !.w = p]
    /\ Goto(p, "st_write")
    /\ UNCHANGED <<parsers, timeout, mapWriters, crashed, lastReg>>

SetTimeout_Write(p) ==
    /\ At(p, "st_write")
    /\ timeout' = tmo[p]
    /\ Goto(p, "st_unlock")
    /\ UNCHANGED <<parsers, mu, mapWriters, crashed, op, arg, req, tmo,
                   found, response, err, platforms, trace, lastReg>>

SetTimeout_Unlock(p) ==
    /\ At(p, "st_unlock")
    /\ mu' = [mu EXCEPT !.w = None]
    /\ Goto(p, "done")
    /\ UNCHANGED <<parsers, timeout, mapWriters, crashed, op, arg, req, tmo,
                   found, response, err, platforms, trace, lastReg>>

GetTimeout_RLock(p) ==
    /\ Ready(p)
    /\ RLockEnabled
    /\ Begin(p, "GetTimeout", NilParser, NilReq, 0)
    /\ response' = [response EXCEPT ![p] = NoResponse]
    /\ err' = [err EXCEPT ![p] = NoErr]
    /\ mu' = [mu EXCEPT !.r = @ \cup {p}]
    /\ Goto(p, "gt_read")
    /\ UNCHANGED <<parsers, timeout, mapWriters, crashed, lastReg>>

GetTimeout_Read(p) ==
    /\ At(p, "gt_read")
    /\ tmo' = [tmo EXCEPT ![p] = timeout]
    /\ Goto(p, "gt_runlock")
    /\ UNCHANGED <<parsers, timeout, mu, mapWriters, crashed, op, arg, req,
                   found, response, err, platforms, trace, lastReg>>

GetTimeout_RUnlock(p) ==
    /\ At(p, "gt_runlock")
    /\ mu' = [mu EXCEPT !.r = @ \ {p}]
    /\ Goto(p, "done")
    /\ UNCHANGED <<parsers, timeout, mapWriters, crashed, op, arg, req, tmo,
                   found, response, err, platforms, trace, lastReg>>

\* ------------------------------------------------------------------------
\* Upstream payloads (gjson.Result)
\* ------------------------------------------------------------------------

\* the characters of upstream texts: a URL character, the Douyin image CDN
\* domain as one unit, the space and the tab
Chars == {"u", "douyinpic.com", " ", "\t"}
Whitespace == {" ", "\t"}

RECURSIVE Texts(_)
Texts(n) == IF n = 0 THEN {<<>>} ELSE Texts(n - 1) \cup {Append(t, c) : t \in Texts(n - 1), c \in Chars}
RECURSIVE Lists(_, _)
Lists(n, elems) ==
    IF n = 0 THEN {<<>>} ELSE Lists(n - 1, elems) \cup {Append(l, e) : l \in Lists(n - 1, elems), e \in elems}

\* a JSON value: absent, a string, or a list of strings
Absent == [kind |-> "absent", str |-> <<>>, arr |-> <<>>]
JString(t) == [kind |-> "string", str |-> t, arr |-> <<>>]
JArray(l) == [kind |-> "array", str |-> <<>>, arr |-> l]
\* a JSON number, by its literal
JNumber(t) == [kind |-> "number", str |-> t, arr |-> <<>>]

\* Result.Get(path), Result.Exists(), Result.IsArray()
Get(d, path) == IF path \in DOMAIN d THEN d[path] ELSE Absent
Exists(v) == v.kind # "absent"
IsArray(v) == v.kind = "array"

\* Result.String(): the text of a string, "" for an absent value, the raw
\* JSON of a list
RECURSIVE Raw(_)
Raw(l) == IF l = <<>> THEN <<>> ELSE <<"\"">> \o Head(l) \o <<"\"">> \o
              (IF Tail(l) = <<>> THEN <<>> ELSE <<",">> \o Raw(Tail(l)))
String(v) ==
    CASE v.kind = "string" -> v.str
      [] v.kind = "number" -> v.str
      [] v.kind = "array" -> <<"[">> \o Raw(v.arr) \o <<"]">>
      [] OTHER -> <<>>

\* strings.Contains(text, c) for a unit c
HasChar(text, c) == \E i \in 1..Len(text) : text[i] = c

\* strings.Fields: the maximal runs of non-whitespace characters, in order
RECURSIVE FieldsFrom(_, _)
FieldsFrom(text, cur) ==
    IF text = <<>> THEN (IF cur = <<>> THEN <<>> ELSE <<cur>>)
    ELSE IF Head(text) \in Whitespace
         THEN (IF cur = <<>> THEN <<>> ELSE <<cur>>) \o FieldsFrom(Tail(text), <<>>)
         ELSE FieldsFrom(Tail(text), Append(cur, Head(text)))
Fields(text) == FieldsFrom(text, <<>>)

\* ------------------------------------------------------------------------
\* Time (package time)
\* ------------------------------------------------------------------------

\* time.Time{}: the zero instant; the clock starts after it
ZeroTime == 0

LayoutSpace == "2006-01-02 15:04:05"
LayoutUnderscore == "2006-01-02_15:04:05"
LayoutRFC == "2006-01-02T15:04:05Z"
LayoutDate == "2006-01-02"
Layouts == {LayoutSpace, LayoutUnderscore, LayoutRFC, LayoutDate}

\* a time text is an instant written in a layout; any other text is not
Digits == {"0", "1"}
DigitValue(c) == IF c = "0" THEN 0 ELSE 1
Format(layout, d) == <<layout, d>>
TimeTexts == {<<>>, <<"u">>} \cup {Format(l, d) : l \in Layouts, d \in Digits}

\* time.Parse(layout, text): (instant, ok)
TimeParse(layout, text) ==
    IF Len(text) = 2 /\ text[1] = layout /\ text[2] \in Digits
    THEN [t |-> DigitValue(text[2]), ok |-> TRUE]
    ELSE [t |-> ZeroTime, ok |-> FALSE]

\* the first layout of the list that parses the text, ZeroTime when none does
RECURSIVE ParseFirst(_, _)
ParseFirst(layouts, text) ==
    IF layouts = <<>> THEN ZeroTime
    ELSE IF TimeParse(Head(layouts), text).ok THEN TimeParse(Head(layouts), text).t
    ELSE ParseFirst(Tail(layouts), text)

\* ------------------------------------------------------------------------
\* parseVideoData of the three adapters
\* ------------------------------------------------------------------------

VideoTypeVideo == "video"
VideoTypeImage == "image"
VideoTypeLive == "live"
VideoTypeUnknown == "unknown"
MediaTypeVideo == "video"
MediaTypeImage == "image"

DownloadItem(url, type) == [URL |-> url, Type |-> type]

\* the parts of VideoInfo that parseVideoData computes from the payload;
\* PlayCount is filled in for Kuaishou only
VideoInfo(k, type, created, downloads, cover) ==
    [isNil |-> FALSE, Platform |-> k, Type |-> type, CreateTime |-> created,
     Downloads |-> downloads, CoverURL |-> cover, PlayCount |-> 0, err |-> NoErr]
NoVideoInfo(e) ==
    [isNil |-> TRUE, Platform |-> "", Type |-> "", CreateTime |-> ZeroTime,
     Downloads |-> <<>>, CoverURL |-> <<>>, PlayCount |-> 0, err |-> e]

\* for _, url := range urls { if url != "" { append(DownloadItem{url, type}) } }
RECURSIVE Items(_, _)
Items(urls, type) ==
    IF urls = <<>> THEN <<>>
    ELSE (IF Head(urls) # <<>> THEN <<DownloadItem(Head(urls), type)>> ELSE <<>>)
         \o Items(Tail(urls), type)

\* DouyinParser.parseVideoData -------------------------------------------

DouyinType(label) ==
    CASE label = <<"shipin">> -> VideoTypeVideo
      [] label = <<"tuji">> -> VideoTypeImage
      [] label = <<"shikuang">> -> VideoTypeLive
      [] OTHER -> VideoTypeUnknown

\* the field is set only when the text is not empty and parses
DouyinCreateTime(text, now) ==
    IF text # <<>> /\ TimeParse(LayoutSpace, text).ok
    THEN TimeParse(LayoutSpace, text).t
    ELSE ZeroTime

DouyinMediaType(url) ==
    IF HasChar(url, "douyinpic.com") THEN MediaTypeImage ELSE MediaTypeVideo

\* downloads.ForEach: every element becomes an item
RECURSIVE DouyinItems(_)
DouyinItems(urls) ==
    IF urls = <<>> THEN <<>>
    ELSE <<DownloadItem(Head(urls), DouyinMediaType(Head(urls)))>> \o DouyinItems(Tail(urls))

DouyinDownloads(v) ==
    IF IsArray(v) THEN DouyinItems(v.arr)
    ELSE IF Exists(v) /\ String(v) # <<>> THEN <<DownloadItem(String(v), MediaTypeVideo)>>
    ELSE <<>>

DouyinParseVideoData(d, now) ==
    VideoInfo("", DouyinType(String(Get(d, "type"))),
              DouyinCreateTime(String(Get(d, "create_time")), now),
              DouyinDownloads(Get(d, "downloads")),
              String(Get(d, "static_cover")))

\* KuaishouParser.parseVideoData -----------------------------------------

KuaishouType(label) ==
    CASE label = <<"shipin">> -> VideoTypeVideo
      [] label = <<"tupian">> -> VideoTypeImage
      [] OTHER -> VideoTypeUnknown

KuaishouCreateTime(text, now) ==
    IF text # <<>>
    THEN (IF TimeParse(LayoutUnderscore, text).ok
          THEN TimeParse(LayoutUnderscore, text).t
          ELSE now)
    ELSE now

KuaishouDownloadURLs(text) ==
    IF text # <<>>
    THEN (IF HasChar(text, " ") THEN Fields(text) ELSE <<text>>)
    ELSE <<>>

\* the media type of the items of a work of the given type
MediaTypeOf(videoType) ==
    IF videoType = VideoTypeImage THEN MediaTypeImage ELSE MediaTypeVideo

KuaishouDownloads(text, videoType) ==
    Items(KuaishouDownloadURLs(text), MediaTypeOf(videoType))

\* the play count -----------------------------------------------------------

\* the characters of a count: digits, the decimal point, and the
\* ten-thousand suffix
Wan == "wan"
CountDigits == {"5", "7"}
CountChars == CountDigits \cup {".", Wan}
DigitOf(c) == IF c = "5" THEN 5 ELSE 7

\* the number a digit text denotes, and ten to the power n
RECURSIVE Decimal(_)
Decimal(text) ==
    IF text = <<>> THEN 0 ELSE 10 * Decimal(SubSeq(text, 1, Len(text) - 1)) + DigitOf(text[Len(text)])
RECURSIVE Pow10(_)
Pow10(n) == IF n = 0 THEN 1 ELSE 10 * Pow10(n - 1)

\* strings.Replace(text, c, "", -1)
RECURSIVE Replace(_, _)
Replace(text, c) ==
    IF text = <<>> THEN <<>>
    ELSE (IF Head(text) = c THEN <<>> ELSE <<Head(text)>>) \o Replace(Tail(text), c)

\* strconv.ParseInt(text, 10, 64): a non-empty text of digits
ParseInt(text) ==
    IF text # <<>> /\ \A i \in 1..Len(text) : text[i] \in CountDigits
    THEN [ok |-> TRUE, num |-> Decimal(text)]
    ELSE [ok |-> FALSE, num |-> 0]

\* strconv.ParseFloat(text, 64): digits with at most one decimal point and at
\* least one digit; the decimal it denotes is num / den, which the float64
\* approximates
ParseFloat(text) ==
    IF /\ \A i \in 1..Len(text) : text[i] \in CountDigits \cup {"."}
       /\ Cardinality({i \in 1..Len(text) : text[i] = "."}) <= 1
       /\ \E i \in 1..Len(text) : text[i] \in CountDigits
    THEN LET point == IF HasChar(text, ".")
                      THEN CHOOSE i \in 1..Len(text) : text[i] = "."
                      ELSE Len(text) + 1
         IN  [ok |-> TRUE, num |-> Decimal(Replace(text, ".")),
              den |-> Pow10(IF point > Len(text) THEN 0 ELSE Len(text) - point)]
    ELSE [ok |-> FALSE, num |-> 0, den |-> 1]

\* the binary exponent of n / d: the e with 2^e <= n / d < 2^(e+1)
RECURSIVE Exponent(_, _)
Exponent(n, d) ==
    IF n >= 2 * d THEN 1 + Exponent(n \div 2, d)
    ELSE IF n < d THEN Exponent(2 * n, d) - 1
    ELSE 0
\* 2^k modulo m, and 2^k
RECURSIVE Pow2Mod(_, _)
Pow2Mod(k, m) == IF k = 0 THEN 1 % m ELSE (2 * Pow2Mod(k - 1, m)) % m
RECURSIVE Pow2(_)
Pow2(k) == IF k = 0 THEN 1 ELSE 2 * Pow2(k - 1)

\* int64(num * 10000) for the float64 num nearest to n / d (d a power of ten
\* that divides 10000).  The 53-bit significand of num is n * 2^k / d rounded
\* to the nearest integer, ties to even, with k = 52 - Exponent(n, d); when
\* it is rounded down by the fraction r / d, the product falls short of the
\* integer n * 10000 / d by 10000 * (r / d) / 2^k, and rounds to a float64
\* below that integer when this exceeds half the spacing of the float64s
\* there, 2^(Exponent(n * 10000 / d, 1) - 53)
TruncTimes10000(n, d) ==
    LET whole == (n * 10000) \div d
        e == Exponent(n, d)
        rem == ((n % (2 * d)) * Pow2Mod(52 - e, 2 * d)) % (2 * d)
        r == rem % d
        roundedDown == r > 0 /\ (2 * r < d \/ (2 * r = d /\ rem < d))
    IN  IF roundedDown /\ 10000 * r > d * Pow2(Exponent(whole, 1) - e - 1)
        THEN whole - 1
        ELSE whole

\* Result.Int() of a number
JInt(v) == ParseFloat(v.str).num \div ParseFloat(v.str).den

\* playCount of KuaishouParser.parseVideoData
KuaishouPlayCount(v) ==
    IF ~Exists(v) THEN 0
    ELSE IF v.kind = "number" THEN JInt(v)
    ELSE IF HasChar(String(v), Wan)
    THEN (IF ParseFloat(Replace(String(v), Wan)).ok
          THEN TruncTimes10000(ParseFloat(Replace(String(v), Wan)).num,
                               ParseFloat(Replace(String(v), Wan)).den)
          ELSE 0)
    ELSE IF ParseInt(String(v)).ok THEN ParseInt(String(v)).num
    ELSE 0

KuaishouParseVideoData(b, now) ==
    IF ~HasChar(String(Get(b, "message")), "chenggong")
    THEN NoVideoInfo(Errorf(<<"upstream error: ">> \o String(Get(b, "message"))))
    ELSE IF ~Exists(Get(b, "data"))
    THEN NoVideoInfo(Errorf(<<"response has no data field">>))
    ELSE [VideoInfo(PlatformKuaishou, KuaishouType(String(Get(b, "photoType"))),
                    KuaishouCreateTime(String(Get(b, "timestamp")), now),
                    KuaishouDownloads(String(Get(b, "download")),
                                      KuaishouType(String(Get(b, "photoType")))),
                    String(Get(b, "coverUrl")))
          EXCEPT !.PlayCount = KuaishouPlayCount(Get(b, "viewCount"))]

\* XiaohongshuParser.parseVideoData --------------------------------------

XiaohongshuType(label) ==
    CASE label = <<"shipin">> -> VideoTypeVideo
      [] label = <<"tuwen">> -> VideoTypeImage
      [] OTHER -> VideoTypeVideo

XiaohongshuLayouts == <<LayoutSpace, LayoutRFC, LayoutDate>>

XiaohongshuCreateTime(text, now) ==
    IF text # <<>>
    THEN (IF ParseFirst(XiaohongshuLayouts, text) = ZeroTime
          THEN now
          ELSE ParseFirst(XiaohongshuLayouts, text))
    ELSE now

\* the texts of a field that is a list or a single value
XiaohongshuURLs(v) ==
    IF IsArray(v) THEN v.arr
    ELSE IF Exists(v) THEN <<String(v)>>
    ELSE <<>>

XiaohongshuCover(downloadURLs, gifURLs) ==
    IF Len(downloadURLs) > 0 THEN downloadURLs[1]
    ELSE IF Len(gifURLs) > 0 THEN gifURLs[1]
    ELSE <<>>

XiaohongshuDownloads(downloadURLs, gifURLs, videoType) ==
    Items(downloadURLs, MediaTypeOf(videoType)) \o Items(gifURLs, MediaTypeImage)

XiaohongshuParseVideoData(b, now) ==
    IF ~HasChar(String(Get(b, "message")), "chenggong")
    THEN NoVideoInfo(Errorf(<<"upstream error: ">> \o String(Get(b, "message"))))
    ELSE IF ~Exists(Get(b, "data"))
    THEN NoVideoInfo(Errorf(<<"response has no data field">>))
    ELSE VideoInfo(PlatformXiaohongshu, XiaohongshuType(String(Get(b, "zuopin_leixing"))),
                   XiaohongshuCreateTime(String(Get(b, "fabu_shijian")), now),
                   XiaohongshuDownloads(XiaohongshuURLs(Get(b, "xiazai_dizhi")),
                                        XiaohongshuURLs(Get(b, "dongtu_dizhi")),
                                        XiaohongshuType(String(Get(b, "zuopin_leixing")))),
                   XiaohongshuCover(XiaohongshuURLs(Get(b, "xiazai_dizhi")),
                                    XiaohongshuURLs(Get(b, "dongtu_dizhi"))))

\* ------------------------------------------------------------------------
\* The adapters' parseVideoData applied to upstream payloads
\* ------------------------------------------------------------------------

Adapters == {PlatformDouyin, PlatformKuaishou, PlatformXiaohongshu}

\* the values of a time field, of a download field and of the GIF field
TimeValues == {Absent} \cup {JString(t) : t \in TimeTexts}
ElemTexts == {<<>>} \cup {<<c>> : c \in Chars}
DownloadValues ==
    {Absent} \cup {JString(t) : t \in Texts(MaxLen)}
    \cup {JArray(l) : l \in Lists(MaxArr, ElemTexts)}
GifValues ==
    {Absent} \cup {JString(t) : t \in {<<>>, <<"u">>, <<" ">>}}
    \cup {JArray(l) : l \in Lists(2, {<<>>, <<"u">>})}
Labels == {<<>>, <<"shipin">>, <<"tuji">>, <<"shikuang">>, <<"tupian">>, <<"tuwen">>}

\* the pairs of a time value and a download value: every time value with a
\* plain download, every download value without a time
TimeAndDownload ==
    {<<t, d>> : t \in TimeValues, d \in {Absent, JString(<<"u">>)}}
    \cup {<<Absent, d>> : d \in DownloadValues}

\* the data object of a Douyin item-detail response
DouyinBodies ==
    {[type |-> JString(l), create_time |-> td[1], downloads |-> td[2]] :
        l \in Labels, td \in TimeAndDownload}

\* the values of the viewCount field: absent, a whole number, or a text
RECURSIVE CountTexts(_)
CountTexts(n) ==
    IF n = 0 THEN {<<>>}
    ELSE CountTexts(n - 1) \cup {Append(t, c) : t \in {u \in CountTexts(n - 1) : Len(u) = n - 1},
                                                 c \in CountChars}
ViewCounts ==
    {Absent} \cup {JString(t) : t \in CountTexts(MaxCount)}
    \cup {JNumber(<<c>>) : c \in CountDigits} \cup {JNumber(<<"5", "7">>)}

\* a Kuaishou response; the fields of its data object are written flat
JObject == [kind |-> "object", str |-> <<>>, arr |-> <<>>]
KuaishouBodies ==
    {[message |-> JString(<<"error">>)], [message |-> JString(<<"chenggong">>)]}
    \cup {[message |-> JString(<<"chenggong">>), data |-> JObject,
           photoType |-> JString(l), timestamp |-> td[1], download |-> td[2]] :
            l \in Labels, td \in {x \in TimeAndDownload : ~IsArray(x[2])}}
    \cup {[message |-> JString(<<"chenggong">>), data |-> JObject, viewCount |-> c] :
            c \in ViewCounts}

\* a Xiaohongshu response; the fields of its data object are written flat
XiaohongshuBodies ==
    {[message |-> JString(<<"error">>)], [message |-> JString(<<"chenggong">>)]}
    \cup {[message |-> JString(<<"chenggong">>), data |-> JObject,
           zuopin_leixing |-> JString(l), fabu_shijian |-> td[1],
           xiazai_dizhi |-> td[2], dongtu_dizhi |-> g] :
            l \in Labels, td \in TimeAndDownload, g \in GifValues}

Bodies(a) ==
    CASE a = PlatformDouyin -> DouyinBodies
      [] a = PlatformKuaishou -> KuaishouBodies
      [] OTHER -> XiaohongshuBodies

\* ------------------------------------------------------------------------
\* DouyinParser.ExtractVideoID and the request URLs
\* ------------------------------------------------------------------------

\* the characters of a URL: the short-link domain, the prefixes of the two
\* canonical patterns, and digits
ShortDomain == "v.douyin.com"
PrefixVideo == "https://www.douyin.com/video/"
PrefixShare == "https://www.iesdouyin.com/share/video/"
URLDigits == {"7", "8"}
URLChars == {ShortDomain, PrefixVideo, PrefixShare} \cup URLDigits

RECURSIVE URLs(_)
URLs(n) ==
    IF n = 0 THEN {<<>>}
    ELSE URLs(n - 1) \cup {Append(t, c) : t \in {u \in URLs(n - 1) : Len(u) = n - 1},
                                           c \in URLChars}

\* the patterns of ExtractVideoID, in the order they are tried
Patterns == <<PrefixVideo, PrefixShare>>

\* re.FindStringSubmatch(url) for the pattern <prefix>(\d+): the leftmost
\* occurrence of the prefix that a digit follows, with the longest run of
\* digits after it; <<>> without a match, else <<match, group 1>>
FindStringSubmatch(prefix, url) ==
    LET at == {i \in 1..(Len(url) - 1) : url[i] = prefix /\ url[i + 1] \in URLDigits}
    IN  IF at = {} THEN <<>>
        ELSE LET i == CHOOSE x \in at : \A y \in at : x <= y
                 j == CHOOSE x \in (i + 1)..Len(url) :
                          /\ \A k \in (i + 1)..x : url[k] \in URLDigits
                          /\ (x = Len(url) \/ url[x + 1] \notin URLDigits)
             IN  <<SubSeq(url, i, j), SubSeq(url, i + 1, j)>>

\* (id, err) of ExtractVideoID: group 1 of the first pattern that matches
ExtractVideoID_FirstDigit(url) ==
    IF Len(FindStringSubmatch(Patterns[1], url)) > 1
    THEN [id |-> <<Head(FindStringSubmatch(Patterns[1], url)[2])>>, err |-> NoErr]
    ELSE IF Len(FindStringSubmatch(Patterns[2], url)) > 1
    THEN [id |-> <<Head(FindStringSubmatch(Patterns[2], url)[2])>>, err |-> NoErr]
    ELSE [id |-> <<>>, err |-> Errorf(<<"cannot extract video id from url: ">> \o url)]
ExtractVideoID(url) ==
    IF Len(FindStringSubmatch(Patterns[1], url)) > 1
    THEN [id |-> FindStringSubmatch(Patterns[1], url)[2], err |-> NoErr]
    ELSE IF Len(FindStringSubmatch(Patterns[2], url)) > 1
    THEN [id |-> FindStringSubmatch(Patterns[2], url)[2], err |-> NoErr]
    ELSE [id |-> <<>>, err |-> Errorf(<<"cannot extract video id from url: ">> \o url)]

\* ------------------------------------------------------------------------
\* One ParseVideo call: clock, context and upstream HTTP calls
\* ------------------------------------------------------------------------

\* a time.Duration of n seconds, in the ten-second units of the call's clock
Seconds(n) == n \div 10

\* client.SetTimeout(30 * time.Second) of the adapters' HTTP clients
ClientTimeout == Seconds(30)

\* the values of s.timeout: the default, and a shorter one set by SetTimeout
CallTimeouts == {Seconds(10), Seconds(DefaultTimeout)}

\* the adapters registered with the SDK that serves the call
CallParsers == {"douyin#1", "kuaishou#1", "xiaohongshu#1"}
CallRegistry == [k \in Adapters |-> CHOOSE a \in CallParsers : GetPlatform(a) = k]

\* the requests of a call: any URL for Douyin, which inspects it, an empty
\* and a non-empty one for the adapters that pass it on; no ID, an ID, and an
\* ID that reads like a URL
CallURLs(k) == IF k = PlatformDouyin THEN URLs(MaxURL) ELSE {<<>>, <<ShortDomain, "7">>}
CallIDs == {<<>>, <<"7">>, <<PrefixVideo, "8">>}
CallRequests ==
    UNION {{Request(k, id, url) : id \in CallIDs, url \in CallURLs(k)} : k \in Adapters}

\* context.Context: its deadline, and whether and when it was cancelled
NoInstant == MaxWall + 1
Background == [deadline |-> NoInstant, cancelled |-> FALSE, cancelledAt |-> 0]
WithTimeout(parent, d) ==
    [parent EXCEPT !.deadline = IF wall + d < parent.deadline THEN wall + d
                                ELSE parent.deadline]
CtxDone == ctx.cancelled \/ wall >= ctx.deadline

\* an upstream HTTP call: p.client.R().[SetContext(ctx).]SetBody(arg).Post(endpoint)
NoCall == [endpoint |-> None, arg |-> <<>>, ctx |-> FALSE, sentAt |-> 0]
Post(endpoint, payload, underCtx) ==
    [endpoint |-> endpoint, arg |-> payload, ctx |-> underCtx, sentAt |-> wall]

\* the call goes out: it is in flight and on record
Issue(c) ==
    /\ inflight' = c
    /\ calls' = Append(calls, [endpoint |-> c.endpoint, arg |-> c.arg, ctx |-> c.ctx])

\* what ends the call in flight: its context once that is done, the client's
\* own timeout, or else the network and the upstream service
Aborted(c) == c.ctx /\ CtxDone
TimedOut(c) == wall - c.sentAt >= ClientTimeout
TransportErrors(c) ==
    IF Aborted(c) THEN {"context done"}
    ELSE IF TimedOut(c) THEN {"client timeout"}
    ELSE {"connection error"}
Reply(k, u) == [kind |-> k, url |-> u]
\* the URLs the share service resolves a short link to
ResolvedURLs ==
    {<<>>, <<PrefixVideo, "8">>, <<PrefixShare, "8", "7">>, <<ShortDomain>>, <<"8">>}
\* resp, err of the share call and of a detail call
ShareReplies(c) ==
    {Reply(k, <<>>) : k \in TransportErrors(c)}
    \cup (IF Aborted(c) \/ TimedOut(c) THEN {}
          ELSE {Reply("status", <<>>), Reply("no url", <<>>)}
               \cup {Reply("ok", u) : u \in ResolvedURLs})
DetailReplies(c) ==
    {Reply(k, <<>>) : k \in TransportErrors(c)}
    \cup (IF Aborted(c) \/ TimedOut(c) THEN {}
          ELSE {Reply(k, <<>>) : k \in {"status", "no data", "ok"}})
IsTransportError(rep) == rep.kind \in {"context done", "client timeout", "connection error"}

\* the adapter's ParseVideo returns (result, error)
Return(o) ==
    /\ callOut' = o
    /\ returnedAt' = wall
    /\ cpc' = "returned"

\* the envelope and the error of the SDK's ParseVideo; Time is response.Time
NoCallResp == [response |-> NoResponse, err |-> NoErr, Time |-> 0]

\* no call is modelled next to the SDK's callers and the normalisation
CallOff ==
    /\ callParser = NilParser
    /\ callReq = NilReq
    /\ callTimeout = Seconds(DefaultTimeout)
    /\ wall = 0
    /\ ctx = Background
    /\ inflight = NoCall
    /\ calls = <<>>
    /\ videoID = <<>>
    /\ fullURL = [url |-> <<>>, err |-> NoErr]
    /\ callOut = Outcome(NilInfo, NoErr)
    /\ returnedAt = 0
    /\ callResp = NoCallResp
    /\ cpc = "off"

\* a client of the Parser interface calls the adapter's ValidateRequest
Call_ValidateRequest ==
    /\ cpc = "validate"
    /\ \E e \in ValidateRequest(callParser, callReq) : callOut' = Outcome(NilInfo, e)
    /\ cpc' = "validated"
    /\ UNCHANGED <<callParser, callReq, callTimeout, wall, ctx, inflight, calls, videoID,
                   fullURL, returnedAt, callResp, sdkVars, normVars>>

\* VideoSDK.ParseVideo up to the adapter's ParseVideo: the envelope is made
\* with Time: start, the request is validated and the context is derived
SDK_ParseVideo_Begin ==
    /\ cpc = "sdk"
    /\ \E e \in ValidateRequest(callParser, callReq) :
          IF ~e.isNil
          THEN /\ callResp' =
                     [response |-> Failure(NewResponse, Sprintf("request validation failed: ", e)),
                      err |-> ErrorfWrap("request validation failed: ", e),
                      Time |-> wall]
               /\ cpc' = "done"
               /\ UNCHANGED ctx
          ELSE /\ callResp' = [response |-> NewResponse, err |-> NoErr, Time |-> wall]
               /\ ctx' = WithTimeout(ctx, callTimeout)
               /\ cpc' = "adapter"
    /\ UNCHANGED <<callParser, callReq, callTimeout, wall, inflight, calls, videoID,
                   fullURL, callOut, returnedAt, sdkVars, normVars>>

\* strings.Contains(req.URL, "v.douyin.com")
IsShortLink_Never(url) == FALSE
IsShortLink(url) == HasChar(url, ShortDomain)

\* videoID of DouyinParser.ParseVideo for a request that is not a short
\* link: extracted from the URL when there is one, else the ID as given
DouyinVideoID_Extract(r) ==
    IF r.URL # <<>> THEN ExtractVideoID(r.URL).id ELSE ExtractVideoID(r.VideoID).id
DouyinVideoID(r) ==
    IF r.URL # <<>> THEN ExtractVideoID(r.URL).id ELSE r.VideoID

\* DouyinParser.ParseVideo up to its first upstream call
Douyin_ParseVideo_Begin ==
    /\ cpc = "adapter" /\ GetPlatform(callParser) = PlatformDouyin
    /\ IF callReq.URL # <<>> /\ IsShortLink(callReq.URL)
       THEN /\ Issue(Post("/douyin/share", callReq.URL, FALSE))
            /\ cpc' = "share"
            /\ UNCHANGED <<videoID, fullURL, callOut, returnedAt>>
       ELSE IF callReq.URL # <<>> /\ ~ExtractVideoID(callReq.URL).err.isNil
       THEN /\ Return(Outcome(NilInfo, ErrorfWrap("failed to extract video id from url: ",
                                                  ExtractVideoID(callReq.URL).err)))
            /\ UNCHANGED <<inflight, calls, videoID, fullURL>>
       ELSE IF callReq.URL = <<>> /\ callReq.VideoID = <<>>
       THEN /\ Return(Outcome(NilInfo, Errorf(<<"url or video id is required">>)))
            /\ UNCHANGED <<inflight, calls, videoID, fullURL>>
       ELSE /\ videoID' = DouyinVideoID(callReq)
            /\ Issue(Post("/douyin/detail", videoID', TRUE))
            /\ cpc' = "detail"
            /\ UNCHANGED <<callOut, returnedAt, fullURL>>
    /\ UNCHANGED <<callParser, callReq, callTimeout, wall, ctx, callResp, sdkVars, normVars>>

\* the share call ends: resolveShortURL returns, the ID is extracted from the
\* full URL and the detail call goes out
Douyin_resolveShortURL_Return ==
    /\ cpc = "share"
    /\ \E rep \in ShareReplies(inflight) :
          LET resolved ==
                  CASE IsTransportError(rep) ->
                         [url |-> <<>>, err |-> ErrorfWrap("share request failed: ",
                                                           Errorf(<<rep.kind>>))]
                    [] rep.kind = "status" ->
                         [url |-> <<>>, err |-> Errorf(<<"share request failed, status: ">>)]
                    [] rep.kind = "no url" ->
                         [url |-> <<>>, err |-> Errorf(<<"no url in share response">>)]
                    [] OTHER -> [url |-> rep.url, err |-> NoErr]
          IN  IF ~resolved.err.isNil
              THEN /\ Return(Outcome(NilInfo, ErrorfWrap("failed to resolve short link: ",
                                                         resolved.err)))
                   /\ inflight' = NoCall
                   /\ UNCHANGED <<calls, videoID>>
                   /\ fullURL' = resolved
              ELSE IF ~ExtractVideoID(resolved.url).err.isNil
              THEN /\ Return(Outcome(NilInfo,
                                     ErrorfWrap("failed to extract video id from full url: ",
                                                ExtractVideoID(resolved.url).err)))
                   /\ inflight' = NoCall
                   /\ UNCHANGED <<calls, videoID>>
                   /\ fullURL' = resolved
              ELSE /\ videoID' = ExtractVideoID(resolved.url).id
                   /\ Issue(Post("/douyin/detail", videoID', TRUE))
                   /\ cpc' = "detail"
                   /\ UNCHANGED <<callOut, returnedAt>>
                   /\ fullURL' = resolved
    /\ UNCHANGED <<callParser, callReq, callTimeout, wall, ctx, callResp, sdkVars, normVars>>

\* the detail call ends and DouyinParser.ParseVideo returns
Douyin_detail_Return ==
    /\ cpc = "detail" /\ GetPlatform(callParser) = PlatformDouyin
    /\ \E rep \in DetailReplies(inflight) :
          Return(CASE IsTransportError(rep) ->
                        Outcome(NilInfo, ErrorfWrap("douyin api request failed: ",
                                                    Errorf(<<rep.kind>>)))
                   [] rep.kind = "status" ->
                        Outcome(NilInfo, Errorf(<<"douyin api request failed, status: ">>))
                   [] rep.kind = "no data" ->
                        Outcome(NilInfo, Errorf(<<"no data field in response">>))
                   [] OTHER -> Outcome(Info(""), NoErr))
    /\ inflight' = NoCall
    /\ UNCHANGED <<callParser, callReq, callTimeout, wall, ctx, calls, videoID, fullURL,
                   callResp,                    sdkVars, normVars>>

\* KuaishouParser.ParseVideo up to its upstream call: the request is
\* validated again and the URL, or else the ID, is sent as it is
Kuaishou_ParseVideo_Begin ==
    /\ cpc = "adapter" /\ GetPlatform(callParser) = PlatformKuaishou
    /\ IF ~AdapterValidateRequest(PlatformKuaishou, callReq).isNil
       THEN /\ Return(Outcome(NilInfo, AdapterValidateRequest(PlatformKuaishou, callReq)))
            /\ UNCHANGED <<inflight, calls, videoID, fullURL>>
       ELSE /\ videoID' = IF callReq.URL # <<>> THEN callReq.URL ELSE callReq.VideoID
            /\ Issue(Post("/detail/", videoID', TRUE))
            /\ cpc' = "detail"
            /\ UNCHANGED <<callOut, returnedAt, fullURL>>
    /\ UNCHANGED <<callParser, callReq, callTimeout, wall, ctx, callResp, sdkVars, normVars>>

Kuaishou_detail_Return ==
    /\ cpc = "detail" /\ GetPlatform(callParser) = PlatformKuaishou
    /\ \E rep \in DetailReplies(inflight) :
          Return(CASE IsTransportError(rep) ->
                        Outcome(NilInfo, ErrorfWrap("kuaishou api request failed: ",
                                                    Errorf(<<rep.kind>>)))
                   [] rep.kind = "status" ->
                        Outcome(NilInfo, Errorf(<<"kuaishou api request failed, status: ">>))
                   [] rep.kind = "no data" ->
                        Outcome(NilInfo, ErrorfWrap("failed to parse response: ",
                                                    Errorf(<<"no data field in response">>)))
                   [] OTHER -> Outcome(Info(PlatformKuaishou), NoErr))
    /\ inflight' = NoCall
    /\ UNCHANGED <<callParser, callReq, callTimeout, wall, ctx, calls, videoID, fullURL,
                   callResp,                    sdkVars, normVars>>

\* XiaohongshuParser.ParseVideo: as KuaishouParser's, on /xhs/detail
Xiaohongshu_ParseVideo_Begin ==
    /\ cpc = "adapter" /\ GetPlatform(callParser) = PlatformXiaohongshu
    /\ IF ~AdapterValidateRequest(PlatformXiaohongshu, callReq).isNil
       THEN /\ Return(Outcome(NilInfo, AdapterValidateRequest(PlatformXiaohongshu, callReq)))
            /\ UNCHANGED <<inflight, calls, videoID, fullURL>>
       ELSE /\ videoID' = IF callReq.URL # <<>> THEN callReq.URL ELSE callReq.VideoID
            /\ Issue(Post("/xhs/detail", videoID', TRUE))
            /\ cpc' = "detail"
            /\ UNCHANGED <<callOut, returnedAt, fullURL>>
    /\ UNCHANGED <<callParser, callReq, callTimeout, wall, ctx, callResp, sdkVars, normVars>>

Xiaohongshu_detail_Return ==
    /\ cpc = "detail" /\ GetPlatform(callParser) = PlatformXiaohongshu
    /\ \E rep \in DetailReplies(inflight) :
          Return(CASE IsTransportError(rep) ->
                        Outcome(NilInfo, Errorf(<<"request failed: ", rep.kind>>))
                   [] rep.kind = "status" ->
                        Outcome(NilInfo, Errorf(<<"api request failed, status: ">>))
                   [] rep.kind = "no data" ->
                        Outcome(NilInfo, Errorf(<<"failed to parse response: ",
                                                  "no data field in response">>))
                   [] OTHER -> Outcome(Info(PlatformXiaohongshu), NoErr))
    /\ inflight' = NoCall
    /\ UNCHANGED <<callParser, callReq, callTimeout, wall, ctx, calls, videoID, fullURL,
                   callResp,                    sdkVars, normVars>>

\* time passes while an upstream call is in flight; a call whose context is
\* done or whose client timeout has passed ends before more time passes
Tick ==
    /\ cpc \in {"share", "detail"}
    /\ wall < MaxWall
    /\ ~Aborted(inflight) /\ ~TimedOut(inflight)
    /\ wall' = wall + 1
    /\ UNCHANGED <<callParser, callReq, callTimeout, ctx, inflight, calls, videoID,
                   fullURL, callOut, returnedAt, callResp, cpc, sdkVars, normVars>>

\* the caller cancels the parent context, and with it the derived one
Cancel ==
    /\ cpc \in {"share", "detail"}
    /\ ~ctx.cancelled
    /\ ctx' = [ctx EXCEPT !.cancelled = TRUE, !.cancelledAt = wall]
    /\ UNCHANGED <<callParser, callReq, callTimeout, wall, inflight, calls, videoID,
                   fullURL, callOut, returnedAt, callResp, cpc, sdkVars, normVars>>

\* VideoSDK.ParseVideo after the adapter's ParseVideo returned
SDK_ParseVideo_Return ==
    /\ cpc = "returned"
    /\ IF ~callOut.err.isNil
       THEN /\ callResp' = [callResp EXCEPT
                     !.response = Failure(@, Sprintf("failed to parse video: ", callOut.err)),
                     !.err = ErrorfWrap("failed to parse video: ", callOut.err)]
            /\ cpc' = "done"
       ELSE IF callOut.info.isNil
       THEN /\ callResp' = NoCallResp
            /\ cpc' = "panic"
       ELSE /\ callResp' = [callResp EXCEPT
                     !.response = Success(@, StampPlatform(callOut.info, callReq))]
            /\ cpc' = "done"
    /\ UNCHANGED <<callParser, callReq, callTimeout, wall, ctx, inflight, calls, videoID,
                   fullURL, callOut, returnedAt, sdkVars, normVars>>

\* no normalisation is modelled next to the SDK's callers
NormOff ==
    /\ adapter = None
    /\ body = [message |-> Absent]
    /\ clock = 1
    /\ videoInfo = NoVideoInfo(NoErr)
    /\ npc = "off"

Douyin_parseVideoData ==
    /\ npc = "start" /\ adapter = PlatformDouyin
    /\ videoInfo' = DouyinParseVideoData(body, clock)
    /\ npc' = "done"
    /\ UNCHANGED <<adapter, body, clock, sdkVars, callVars>>

Kuaishou_parseVideoData ==
    /\ npc = "start" /\ adapter = PlatformKuaishou
    /\ videoInfo' = KuaishouParseVideoData(body, clock)
    /\ npc' = "done"
    /\ UNCHANGED <<adapter, body, clock, sdkVars, callVars>>

Xiaohongshu_parseVideoData ==
    /\ npc = "start" /\ adapter = PlatformXiaohongshu
    /\ videoInfo' = XiaohongshuParseVideoData(body, clock)
    /\ npc' = "done"
    /\ UNCHANGED <<adapter, body, clock, sdkVars, callVars>>

InitNorm ==
    /\ NewSDK
    /\ adapter \in Adapters
    /\ body \in Bodies(adapter)
    /\ clock \in 1..MaxClock
    /\ videoInfo = NoVideoInfo(NoErr)
    /\ npc = "start"
    /\ CallOff

NextNorm ==
    \/ Douyin_parseVideoData
    \/ Kuaishou_parseVideoData
    \/ Xiaohongshu_parseVideoData

SpecNorm == InitNorm /\ [][NextNorm]_vars

\* ------------------------------------------------------------------------
\* One ParseVideo call, or one ValidateRequest call, on a registered adapter
\* ------------------------------------------------------------------------

InitCall ==
    /\ NewSDK
    /\ NormOff
    /\ callReq \in CallRequests
    /\ callParser \in CallParsers
    /\ cpc \in {"sdk", "validate"}
    /\ cpc = "sdk" => callParser = CallRegistry[callReq.Platform]
    /\ callTimeout \in CallTimeouts
    /\ cpc = "validate" => callTimeout = Seconds(DefaultTimeout)
    /\ wall = 0
    /\ ctx = Background
    /\ inflight = NoCall
    /\ calls = <<>>
    /\ videoID = <<>>
    /\ fullURL = [url |-> <<>>, err |-> NoErr]
    /\ callOut = Outcome(NilInfo, NoErr)
    /\ returnedAt = 0
    /\ callResp = NoCallResp

NextCall ==
    \/ Call_ValidateRequest
    \/ SDK_ParseVideo_Begin
    \/ Douyin_ParseVideo_Begin
    \/ Douyin_resolveShortURL_Return
    \/ Douyin_detail_Return
    \/ Kuaishou_ParseVideo_Begin
    \/ Kuaishou_detail_Return
    \/ Xiaohongshu_ParseVideo_Begin
    \/ Xiaohongshu_detail_Return
    \/ Tick
    \/ Cancel
    \/ SDK_ParseVideo_Return

SpecCall == InitCall /\ [][NextCall]_vars

\* ------------------------------------------------------------------------
\* The SDK under concurrent callers
\* ------------------------------------------------------------------------

Init == NewSDK /\ NormOff /\ CallOff

Next ==
    \/ \E p \in Procs, a \in ParserInstances \cup {NilParser} : RegisterParser_Call(p, a)
    \/ \E p \in Procs : RegisterParser_Lock(p)
    \/ \E p \in Procs : RegisterParser_WriteBegin(p)
    \/ \E p \in Procs : RegisterParser_WriteEnd(p)
    \/ \E p \in Procs : RegisterParser_Unlock(p)
    \/ \E p \in Procs, r \in Requests : ParseVideo_Call(p, r)
    \/ \E p \in Procs : ParseVideo_RLock(p)
    \/ \E p \in Procs : ParseVideo_Lookup(p)
    \/ \E p \in Procs : ParseVideo_RUnlock(p)
    \/ \E p \in Procs : ParseVideo_Validate(p)
    \/ \E p \in Procs : ParseVideo_Invoke(p)
    \/ \E p \in Procs : ParseVideo_Return(p)
    \/ \E p \in Procs : GetSupportedPlatforms_RLock(p)
    \/ \E p \in Procs : GetSupportedPlatforms_Read(p)
    \/ \E p \in Procs : GetSupportedPlatforms_RUnlock(p)
    \/ \E p \in Procs, t \in Timeouts : SetTimeout_Lock(p, t)
    \/ \E p \in Procs : SetTimeout_Write(p)
    \/ \E p \in Procs : SetTimeout_Unlock(p)
    \/ \E p \in Procs : GetTimeout_RLock(p)
    \/ \E p \in Procs : GetTimeout_Read(p)
    \/ \E p \in Procs : GetTimeout_RUnlock(p)

Spec == Init /\ [][Next]_vars

\* ------------------------------------------------------------------------
\* Properties of the registry and of the orchestrator
\* ------------------------------------------------------------------------

\* what a step of caller p changes
Local(p) == <<pc[p], op[p], arg[p], req[p], tmo[p], err[p], response[p], trace[p]>>
Events(p, e) == {i \in 1..Len(trace[p]) : trace[p][i].ev = e}
\* sub occurs in text as a contiguous part
Contains(text, sub) ==
    \E i \in 0..(Len(text) - Len(sub)) : \A j \in 1..Len(sub) : text[i + j] = sub[j]

\* C1: the adapter ParseVideo dispatches to for a key is the adapter of the
\* most recent RegisterParser call that returned nil for that key, and the
\* bindings of the other keys are those of their own most recent registration
C1_LastWriteWins ==
    /\ (\A p \in Procs : pc[p] # "reg_unlock") => \A k \in Keys : parsers[k] = lastReg[k]
    /\ \A p \in Procs :
          /\ pc[p] = "pv_runlock" => found[p] = Lookup(lastReg[req[p].Platform])
          /\ \A i \in Events(p, "validate") \cup Events(p, "parse") :
                trace[p][i].parser = found[p].parser

C1_Witness ==
    \E p, q \in Procs :
        /\ pc[p] = "pv_adapter" /\ found[p].parser = "douyin#1"
        /\ pc[q] = "pv_runlock" /\ found[q].parser = "douyin#2"
        /\ parsers[PlatformKuaishou] = "kuaishou#1"

\* C2: the parsers map is read only under the read lock and written only
\* under the write lock, no access overlaps a write, and every lookup
\* obtains the complete binding from before or from after a registration
\* that overlaps it, never anything else
C2_MapUnderMutex ==
    /\ \A p \in Procs :
          /\ pc[p] \in {"reg_write", "reg_writing", "reg_unlock"} => mu.w = p /\ mu.r = {}
          /\ pc[p] \in {"pv_lookup", "pv_runlock", "gsp_read", "gsp_runlock"}
                => p \in mu.r /\ mu.w = None
          /\ \A i \in Events(p, "store") \cup Events(p, "lookup") \cup Events(p, "keys") :
                trace[p][i].locked
          /\ \A i \in Events(p, "lookup") :
                /\ trace[p][i].parser \in {trace[p][i].old, trace[p][i].new}
                /\ trace[p][i].parser \in ParserInstances \cup {NilParser}
                /\ trace[p][i].parser # NilParser
                      => GetPlatform(trace[p][i].parser) = req[p].Platform
          /\ platforms[p] \subseteq Keys
    /\ mapWriters # {} => mu.r = {} /\ mapWriters = {mu.w}

\* a lookup that obtained the previous binding of a key while a registration
\* of another adapter under that key was in progress
C2_Witness ==
    \E p, q \in Procs :
        /\ pc[p] = "pv_runlock" /\ found[p].exists
        /\ pc[q] = "reg_lock" /\ GetPlatform(arg[q]) = req[p].Platform
        /\ arg[q] # found[p].parser

\* C3: a ParseVideo call with a nil request or an empty platform key ends at
\* once with a failure envelope and a non-nil error, without a lookup and
\* without a call of any adapter
C3_RejectsNilAndEmpty ==
    \A p \in Procs :
        (op[p] = "ParseVideo" /\ (req[p].isNil \/ req[p].Platform = ""))
        => /\ pc[p] = "done"
           /\ ~response[p].Success
           /\ response[p].Error # <<>>
           /\ ~err[p].isNil
           /\ trace[p] = <<>>
           /\ ~found[p].exists

\* both rejections, with adapters registered
C3_Witness ==
    \E p, q \in Procs :
        /\ op[p] = "ParseVideo" /\ pc[p] = "done" /\ req[p].isNil
        /\ op[q] = "ParseVideo" /\ pc[q] = "done" /\ ~req[q].isNil /\ req[q].Platform = ""
        /\ \A k \in Keys : parsers[k] # NilParser

\* C4: a ParseVideo call whose lookup finds no binding ends with the
\* "unsupported platform" failure envelope naming the platform and a non-nil
\* error, without a call of ValidateRequest or ParseVideo of any adapter
C4_UnsupportedPlatform ==
    \A p \in Procs :
        (\E i \in Events(p, "lookup") : trace[p][i].parser = NilParser)
        => /\ Events(p, "validate") = {} /\ Events(p, "parse") = {}
           /\ pc[p] \in {"pv_runlock", "done"}
           /\ pc[p] = "done" =>
                /\ ~response[p].Success
                /\ response[p].Error = <<"platform ", req[p].Platform, " is not supported">>
                /\ req[p].Platform # ""
                /\ ~err[p].isNil
                /\ err[p].text = response[p].Error

\* an unsupported key while another key is bound
C4_Witness ==
    \E p \in Procs :
        /\ op[p] = "ParseVideo" /\ pc[p] = "done"
        /\ Events(p, "lookup") # {} /\ ~found[p].exists
        /\ req[p].Platform = PlatformKuaishou
        /\ parsers[PlatformDouyin] # NilParser

\* C5: ValidateRequest of the adapter comes before its ParseVideo, and when
\* it returns an error ParseVideo is not invoked: the call ends with a
\* failure envelope whose error contains the validation message and with an
\* error that wraps it
C5_ValidateBeforeParse ==
    \A p \in Procs :
        /\ \A i \in Events(p, "parse") :
              \E j \in Events(p, "validate") :
                  j < i /\ trace[p][j].parser = trace[p][i].parser /\ trace[p][j].err.isNil
        /\ \A j \in Events(p, "validate") :
              ~trace[p][j].err.isNil
              => /\ Events(p, "parse") = {}
                 /\ pc[p] = "done"
                 /\ ~response[p].Success
                 /\ Contains(response[p].Error, trace[p][j].err.text)
                 /\ ~err[p].isNil
                 /\ err[p].wraps = trace[p][j].err.text

\* a Douyin request without id and url, rejected by the adapter
C5_Witness ==
    \E p \in Procs :
        /\ op[p] = "ParseVideo" /\ pc[p] = "done"
        /\ found[p].parser = "douyin#1"
        /\ \E j \in Events(p, "validate") :
              trace[p][j].err.text = <<"video_id or url is required">>

\* C6: the platform of the data of a success envelope is the platform key of
\* the request
C6_PlatformStamped ==
    \A p \in Procs :
        (op[p] = "ParseVideo" /\ pc[p] = "done" /\ response[p].Success)
        => response[p].Data.Platform = req[p].Platform

\* success through the Douyin adapter, which leaves the platform unset, and
\* through the custom adapter
C6_Witness ==
    \E p, q \in Procs :
        /\ op[p] = "ParseVideo" /\ pc[p] = "done" /\ response[p].Success
        /\ found[p].parser = "douyin#2"
        /\ op[q] = "ParseVideo" /\ pc[q] = "done" /\ response[q].Success
        /\ found[q].parser = "custom#1"

\* C7: a returned envelope is either a success (data, no error string, nil
\* error) or a failure (no data, an error string, a non-nil error)
C7_EnvelopeConsistent ==
    \A p \in Procs :
        (op[p] = "ParseVideo" /\ pc[p] = "done")
        => \/ /\ response[p].Success
              /\ ~response[p].Data.isNil
              /\ response[p].Error = <<>>
              /\ err[p].isNil
           \/ /\ ~response[p].Success
              /\ response[p].Data.isNil
              /\ response[p].Error # <<>>
              /\ ~err[p].isNil

\* a success next to an adapter failure
C7_Witness ==
    \E p, q \in Procs :
        /\ op[p] = "ParseVideo" /\ pc[p] = "done" /\ response[p].Success
        /\ op[q] = "ParseVideo" /\ pc[q] = "done" /\ ~response[q].Success
        /\ Events(q, "parse") # {}

\* C8: RegisterParser returns an error for a nil adapter and for an adapter
\* with the empty platform key and then leaves the registry as it was; for
\* any other adapter it returns nil with the adapter bound under its key
C8_RegisterParserErrors ==
    [][\A p \in Procs :
          (op'[p] = "RegisterParser" /\ pc'[p] = "done" /\ Local(p)' # Local(p))
          => IF arg'[p] = NilParser \/ GetPlatform(arg'[p]) = ""
             THEN /\ ~err'[p].isNil
                  /\ pc[p] \in {"idle", "done"}
                  /\ parsers' = parsers
             ELSE /\ err'[p].isNil
                  /\ pc[p] = "reg_unlock"
                  /\ parsers'[GetPlatform(arg'[p])] = arg'[p]
    ]_vars

\* a rejected registration of the adapter with the empty key, next to an
\* accepted one
C8_Witness ==
    \E p, q \in Procs :
        /\ op[p] = "RegisterParser" /\ pc[p] = "done" /\ arg[p] = "custom#empty"
        /\ ~err[p].isNil
        /\ op[q] = "RegisterParser" /\ pc[q] = "done" /\ err[q].isNil
        /\ parsers[GetPlatform(arg[q])] = arg[q]

\* ------------------------------------------------------------------------
\* Properties of the normalisation
\* ------------------------------------------------------------------------

\* the time field of each adapter's payload and the layouts it knows
TimeField(a) ==
    CASE a = PlatformDouyin -> "create_time"
      [] a = PlatformKuaishou -> "timestamp"
      [] OTHER -> "fabu_shijian"
KnownLayouts(a) ==
    CASE a = PlatformDouyin -> {LayoutSpace}
      [] a = PlatformKuaishou -> {LayoutUnderscore}
      [] OTHER -> {LayoutSpace, LayoutRFC, LayoutDate}

\* the payload's time text is absent, empty or in none of the known layouts
TimeUnusable ==
    \A l \in KnownLayouts(adapter) : ~TimeParse(l, String(Get(body, TimeField(adapter)))).ok

\* the payload carries no upstream error and has its data object
EnvelopeOk ==
    adapter = PlatformDouyin
    \/ (HasChar(String(Get(body, "message")), "chenggong") /\ Exists(Get(body, "data")))

\* a text that is empty or made of whitespace only
IsBlank(text) == \A i \in 1..Len(text) : text[i] \in Whitespace

\* C9: for every adapter, a payload whose time text is absent, empty or in
\* none of the adapter's layouts still normalises, and the result's
\* CreateTime is the time of the normalisation, never the zero time
C9_TimestampFallback ==
    (npc = "done" /\ EnvelopeOk /\ TimeUnusable)
    => /\ ~videoInfo.isNil /\ videoInfo.err.isNil
       /\ videoInfo.CreateTime = clock
       /\ videoInfo.CreateTime # ZeroTime

\* C10: for every adapter, no entry of the Downloads of a normalised payload
\* has an empty or whitespace-only URL
C10_NoBlankDownloadURL ==
    (npc = "done" /\ ~videoInfo.isNil)
    => \A i \in 1..Len(videoInfo.Downloads) : ~IsBlank(videoInfo.Downloads[i].URL)

\* ------------------------------------------------------------------------
\* Properties of one ParseVideo call (SpecCall)
\* ------------------------------------------------------------------------

\* the call has reached the Douyin adapter's ParseVideo and gone past its
\* routing of the request
InDouyin == GetPlatform(callParser) = PlatformDouyin
            /\ cpc \in {"share", "detail", "returned", "done"}
\* the adapter's ParseVideo has returned
Returned == cpc \in {"returned", "done"}
\* the SDK returned a failure envelope that carries an error text
FailureEnvelope ==
    /\ ~callResp.response.Success
    /\ callResp.response.Error # <<>>
    /\ ~callResp.err.isNil
\* the digits of the url from position i on, up to the first other character
RECURSIVE DigitRun(_, _)
DigitRun(url, i) ==
    IF i <= Len(url) /\ url[i] \in URLDigits THEN <<url[i]>> \o DigitRun(url, i + 1)
    ELSE <<>>
\* the digits that follow the leftmost occurrence of the prefix that digits follow
DigitsAfter(prefix, url) ==
    LET i == CHOOSE x \in 1..Len(url) :
                 /\ url[x] = prefix /\ DigitRun(url, x + 1) # <<>>
                 /\ \A y \in 1..(x - 1) : ~(url[y] = prefix /\ DigitRun(url, y + 1) # <<>>)
    IN  DigitRun(url, i + 1)
\* the url matches the canonical pattern of the prefix
Matches(prefix, url) ==
    \E x \in 1..(Len(url) - 1) : url[x] = prefix /\ url[x + 1] \in URLDigits
Canonical(url) == Matches(PrefixVideo, url) \/ Matches(PrefixShare, url)
\* the ID the canonical url carries
CanonicalID(url) ==
    IF Matches(PrefixVideo, url) THEN DigitsAfter(PrefixVideo, url)
    ELSE DigitsAfter(PrefixShare, url)

\* C11: for a Douyin request whose URL contains the short-link domain the
\* first upstream call is the share call on the request URL; a detail call
\* follows only after the share call returned a URL that matches a pattern,
\* and carries the ID of that URL; when the share call fails or its URL
\* matches no pattern the adapter returns an error, the SDK a failure
\* envelope, and no detail call was issued
C11_ShortLinkOrder ==
    (InDouyin /\ Contains(callReq.URL, <<ShortDomain>>))
    => /\ Len(calls) \in {1, 2}
       /\ calls[1] = [endpoint |-> "/douyin/share", arg |-> callReq.URL, ctx |-> calls[1].ctx]
       /\ cpc = "share" => Len(calls) = 1
       /\ Len(calls) = 2
          => /\ fullURL.err.isNil /\ Canonical(fullURL.url)
             /\ calls[2].endpoint = "/douyin/detail"
             /\ calls[2].arg = CanonicalID(fullURL.url)
       /\ (cpc # "share" /\ (~fullURL.err.isNil \/ ~Canonical(fullURL.url)))
          => /\ Len(calls) = 1
             /\ Returned /\ ~callOut.err.isNil /\ callOut.info.isNil
             /\ cpc = "done" => FailureEnvelope
       /\ (cpc # "share" /\ fullURL.err.isNil /\ Canonical(fullURL.url))
          => Len(calls) = 2

\* a short link was resolved to a canonical URL whose ID differs from the
\* digits of the request URL, the detail call went out and the SDK returned
C11_Witness ==
    /\ InDouyin /\ Contains(callReq.URL, <<ShortDomain>>)
    /\ callReq.URL = <<PrefixVideo, "7", ShortDomain>>
    /\ cpc = "done" /\ Len(calls) = 2 /\ calls[2].arg = <<"8", "7">>
    /\ callResp.response.Success

\* C12: for a Douyin request whose URL matches a canonical pattern no share
\* call is issued: the only upstream call is the detail call, and it carries
\* the ID of the request URL
C12_CanonicalDirect ==
    (InDouyin /\ Canonical(callReq.URL))
    => /\ \A i \in 1..Len(calls) : calls[i].endpoint # "/douyin/share"
       /\ Len(calls) = 1
       /\ calls[1].endpoint = "/douyin/detail"
       /\ calls[1].arg = CanonicalID(callReq.URL)

\* C12 as amended: for a Douyin request whose URL matches a canonical
\* pattern and does not contain the short-link domain no share call is
\* issued: the only upstream call is the detail call, and it carries the ID
\* of the request URL
C12_CanonicalDirectUnlessShortDomain ==
    (InDouyin /\ Canonical(callReq.URL) /\ ~Contains(callReq.URL, <<ShortDomain>>))
    => /\ \A i \in 1..Len(calls) : calls[i].endpoint # "/douyin/share"
       /\ Len(calls) = 1
       /\ calls[1].endpoint = "/douyin/detail"
       /\ calls[1].arg = CanonicalID(callReq.URL)

\* a call on a canonical share URL with a two-digit ID returned
C12_Witness ==
    /\ InDouyin /\ callReq.URL = <<PrefixShare, "7", "8">>
    /\ cpc = "done" /\ callResp.response.Success
    /\ calls = <<[endpoint |-> "/douyin/detail", arg |-> <<"7", "8">>, ctx |-> TRUE]>>

\* an upstream call is in flight
InFlight == inflight.endpoint # None

\* C13: every upstream call in flight runs under the context the SDK derived
\* for the call, so that it is never still in flight after the deadline of
\* that context or after the instant the context was cancelled; and once the
\* context was done with a call in flight, the SDK returns a failure
\* envelope that carries the error text
C13_UpstreamUnderContext ==
    /\ InFlight
       => /\ inflight.ctx
          /\ wall <= ctx.deadline
          /\ ctx.cancelled => wall = ctx.cancelledAt
    /\ (cpc = "done" /\ calls # <<>> /\ (ctx.cancelled \/ returnedAt >= ctx.deadline))
       => FailureEnvelope

\* the play count the text of a count stands for: with the ten-thousand
\* suffix, the decimal left after removing it times 10000, truncated; a
\* digit text, its value; 0 for anything else
CountOf(text) ==
    IF Contains(text, <<Wan>>)
    THEN (IF ParseFloat(Replace(text, Wan)).ok
          THEN (ParseFloat(Replace(text, Wan)).num * 10000) \div ParseFloat(Replace(text, Wan)).den
          ELSE 0)
    ELSE IF text # <<>> /\ \A i \in 1..Len(text) : text[i] \in CountDigits
    THEN Decimal(text)
    ELSE 0

\* C14: Kuaishou's normalisation does not fail on the play count, and the
\* play count is the number itself for a numeric field, the count its text
\* stands for for a string field, and 0 for an absent field
C14_PlayCount ==
    (npc = "done" /\ adapter = PlatformKuaishou /\ EnvelopeOk)
    => /\ ~videoInfo.isNil /\ videoInfo.err.isNil
       /\ videoInfo.PlayCount =
             (CASE Get(body, "viewCount").kind = "number" -> Decimal(Get(body, "viewCount").str)
                [] Get(body, "viewCount").kind = "string" -> CountOf(Get(body, "viewCount").str)
                [] OTHER -> 0)

\* the download entries of the given kind for the given URLs, in order
RECURSIVE Entries(_, _)
Entries(urls, kind) ==
    IF urls = <<>> THEN <<>>
    ELSE <<[URL |-> Head(urls), Type |-> kind]>> \o Entries(Tail(urls), kind)

\* C15: Kuaishou's downloads are the whitespace-separated non-empty tokens
\* of the download text, in order and with repetitions, each of kind image
\* when the item is an image set and of kind video otherwise
C15_KuaishouDownloads ==
    (npc = "done" /\ adapter = PlatformKuaishou /\ EnvelopeOk)
    => /\ ~videoInfo.isNil
       /\ videoInfo.Downloads =
             Entries(Fields(String(Get(body, "download"))),
                     IF videoInfo.Type = VideoTypeImage THEN "image" ELSE "video")

\* C16: the ValidateRequest of each of the three adapters returns an error
\* exactly when the request has neither ID nor URL or names another
\* platform than the adapter's; and a ParseVideo call of the SDK with
\* neither ID nor URL ends in a failure envelope without any upstream call
C16_ValidateRequest ==
    /\ cpc = "validated"
       => (~callOut.err.isNil
           <=> \/ (callReq.VideoID = <<>> /\ callReq.URL = <<>>)
               \/ callReq.Platform # GetPlatform(callParser))
    /\ (cpc \notin {"sdk", "validate", "validated"}
        /\ callReq.VideoID = <<>> /\ callReq.URL = <<>>)
       => cpc = "done" /\ FailureEnvelope /\ calls = <<>>

\* the Xiaohongshu adapter rejected a Douyin request that has a URL
C16_Witness ==
    /\ cpc = "validated" /\ callParser = "xiaohongshu#1"
    /\ callReq.Platform = PlatformDouyin /\ callReq.URL # <<>>
    /\ ~callOut.err.isNil

\* C17: the Time of a success envelope is not earlier than the instant the
\* adapter's ParseVideo returned its result
C17_TimeIsCompletion ==
    (cpc = "done" /\ callResp.response.Success)
    => callResp.Time >= returnedAt

\* C18: every download entry of a Douyin result is of kind image when its
\* URL contains the image-CDN domain and of kind video otherwise, for a
\* downloads field that is a list and for one that is a single text
C18_DouyinImageCDN ==
    (npc = "done" /\ adapter = PlatformDouyin /\ ~videoInfo.isNil)
    => \A i \in 1..Len(videoInfo.Downloads) :
          videoInfo.Downloads[i].Type =
             IF Contains(videoInfo.Downloads[i].URL, <<"douyinpic.com">>)
             THEN "image" ELSE "video"

\* C19: a Douyin request with an ID and no URL leads to exactly one upstream
\* call, the detail call, whose detail_id is the ID as given; no share call
\* is issued
C19_ExplicitID ==
    (InDouyin /\ callReq.URL = <<>> /\ callReq.VideoID # <<>>)
    => /\ Len(calls) = 1
       /\ calls[1].endpoint = "/douyin/detail"
       /\ calls[1].arg = callReq.VideoID
       /\ fullURL = [url |-> <<>>, err |-> NoErr]

\* a call with an ID that reads like a canonical URL returned
C19_Witness ==
    /\ InDouyin /\ callReq.URL = <<>> /\ callReq.VideoID = <<PrefixVideo, "8">>
    /\ cpc = "done" /\ callResp.response.Success
    /\ calls[1].arg = <<PrefixVideo, "8">>

\* ------------------------------------------------------------------------
\* Properties of the SDK (Spec), continued
\* ------------------------------------------------------------------------

\* C20: whatever a registered adapter's ParseVideo returns, a nil result
\* with a nil error included, no ParseVideo call of the SDK ends in a panic:
\* the process never crashes
C20_NeverCrashes ==
    /\ ~crashed
    /\ \A p \in Procs : pc[p] # "panic"


\* C21: the timeout field is only read or written under the SDK mutex.  A
\* caller about to read it (ParseVideo before context.WithTimeout, GetTimeout
\* before its return) holds the mutex in read mode, a caller about to write
\* it (SetTimeout) holds it in write mode, and so no ParseVideo is at its
\* read of the timeout while a SetTimeout is at its write.
C21_TimeoutUnderMutex ==
    \A p \in Procs :
        /\ pc[p] \in {"pv_invoke", "gt_read"} => p \in mu.r
        /\ pc[p] = "st_write" => mu.w = p
        /\ pc[p] = "pv_invoke" => \A w \in Procs : pc[w] # "st_write"


\* the positions of ParseVideo past the registry lookup: before the adapter's
\* ValidateRequest, before the adapter's ParseVideo, and inside it
InAdapter == {"pv_validate", "pv_invoke", "pv_adapter"}

\* C22: ParseVideo holds the SDK mutex only for the registry lookup: a caller
\* that is about to invoke, or is inside, the adapter's ValidateRequest or
\* ParseVideo holds the mutex in neither mode, so when every caller is
\* inside an adapter or between calls the mutex is free and RegisterParser,
\* SetTimeout and GetSupportedPlatforms can acquire it; a caller that did
\* acquire it is not waiting for anything to release it
C22_MutexOnlyForLookup ==
    /\ \A p \in Procs : pc[p] \in InAdapter => p \notin mu.r /\ mu.w # p
    /\ (\A p \in Procs : pc[p] \in InAdapter \cup {"idle", "done"})
          => LockEnabled /\ RLockEnabled
    /\ \A p \in Procs : pc[p] \in InAdapter =>
          \A q \in Procs \ {p} : Ready(q) => LockEnabled /\ RLockEnabled

\* two ParseVideo calls are inside the same adapter at once, the mutex free
C22_Witness ==
    /\ \A p \in Procs : pc[p] = "pv_adapter"
    /\ found["c1"].parser = found["c2"].parser
    /\ found["c1"].parser # NilParser
    /\ LockEnabled

====
